---------------------------- MODULE Spec2Model ----------------------------
(***************************************************************************)
(* Model of notebooks/module-3/email_assistant.py: the four inbox tools,   *)
(* the agent with its human-in-the-loop middleware, and the command-line   *)
(* loop of the demo block that collects the operator's decisions and       *)
(* resumes the agent.                                                      *)
(*                                                                         *)
(* Text (ids, bodies, typed lines) is a sequence of one-character strings, *)
(* so that str.strip() and str.lower() are computed, not assumed.          *)
(***************************************************************************)
EXTENDS Integers, Sequences, FiniteSets, TLC

(* ------------------------------- bounds -------------------------------- *)

\* Most tool calls the model issues in one turn.
MaxBatch == 2

\* Most entries of processed_ids; a mutating tool call is proposed only below it.
MaxProcessed == 2

(* ------------------------------- text ---------------------------------- *)

\* Sequences over S of length 1..n.
SeqsUpTo(S, n) == UNION {[1..k -> S] : k \in 1..n}

RECURSIVE LStrip(_)
LStrip(s) == IF s # <<>> /\ Head(s) = " " THEN LStrip(Tail(s)) ELSE s

RECURSIVE RStrip(_)
RStrip(s) == IF s # <<>> /\ s[Len(s)] = " " THEN RStrip(SubSeq(s, 1, Len(s) - 1)) ELSE s

\* str.strip(): leading and trailing whitespace removed.
Strip(s) == RStrip(LStrip(s))

LowerChar(c) ==
    CASE c = "A" -> "a"
      [] c = "R" -> "r"
      [] c = "E" -> "e"
      [] OTHER -> c

\* str.lower()
Lower(s) == [k \in 1..Len(s) |-> LowerChar(s[k])]

(* ----------------------------- sample data ----------------------------- *)

SAMPLE_INBOX ==
    << [id |-> <<"1">>, from |-> "jane@example.com"],
       [id |-> <<"2">>, from |-> "boss@company.com"],
       [id |-> <<"3">>, from |-> "deals@spammy-cruises.biz"],
       [id |-> <<"4">>, from |-> "mike@example.com"],
       [id |-> <<"5">>, from |-> "hr@company.com"] >>

InboxIds(inbox) == {inbox[k].id : k \in 1..Len(inbox)}

InList(x, list) == \E k \in 1..Len(list) : list[k] = x

Count(x, list) == Cardinality({k \in 1..Len(list) : list[k] = x})

(* -------------------------------- tools -------------------------------- *)

\* A tool's answer (the content of its ToolMessage), and the update of
\* processed_ids it returns: has_update is FALSE when the Command carries
\* no "processed_ids" key.
Answer(kind, email_id, to, body) ==
    [kind |-> kind, email_id |-> email_id, to |-> to, body |-> body]

NotFoundAnswer(email_id) == Answer("not_found", email_id, "", <<>>)

ToolOut(answer, has_update, processed_ids) ==
    [answer |-> answer, has_update |-> has_update, processed_ids |-> processed_ids]

\* check_inbox: one line per email of the inbox, in inbox order.
check_inbox(inbox, processed_ids) ==
    [k \in 1..Len(inbox) |->
        [status |-> IF InList(inbox[k].id, processed_ids) THEN "DONE" ELSE "NEW",
         id |-> inbox[k].id,
         from |-> inbox[k].from]]

read_email(email_id, inbox) ==
    IF \E k \in 1..Len(inbox) : inbox[k].id = email_id
    THEN LET k == CHOOSE j \in 1..Len(inbox) :
                      /\ inbox[j].id = email_id
                      /\ \A m \in 1..(j - 1) : inbox[m].id # email_id
         IN ToolOut(Answer("email", email_id, inbox[k].from, <<>>), FALSE, <<>>)
    ELSE ToolOut(NotFoundAnswer(email_id), FALSE, <<>>)

\* A reply that does not look the email up.
reply_to_email_NoCheck(email_id, body, inbox, processed_ids) ==
    ToolOut(Answer("reply_sent", email_id, "", body),
            TRUE, Append(processed_ids, email_id))

reply_to_email(email_id, body, inbox, processed_ids) ==
    IF \E k \in 1..Len(inbox) : inbox[k].id = email_id
    THEN LET k == CHOOSE j \in 1..Len(inbox) :
                      /\ inbox[j].id = email_id
                      /\ \A m \in 1..(j - 1) : inbox[m].id # email_id
             recipient == inbox[k].from
         IN ToolOut(Answer("reply_sent", email_id, recipient, body),
                    TRUE, Append(processed_ids, email_id))
    ELSE ToolOut(NotFoundAnswer(email_id), FALSE, <<>>)

\* A delete that does not look the email up.
delete_email_NoCheck(email_id, inbox, processed_ids) ==
    ToolOut(Answer("deleted", email_id, "", <<>>),
            TRUE, Append(processed_ids, email_id))

delete_email(email_id, inbox, processed_ids) ==
    LET found == \E k \in 1..Len(inbox) : inbox[k].id = email_id
    IN IF ~found
       THEN ToolOut(NotFoundAnswer(email_id), FALSE, <<>>)
       ELSE ToolOut(Answer("deleted", email_id, "", <<>>),
                    TRUE, Append(processed_ids, email_id))

(* ------------------- what the collaborators may send -------------------- *)

\* Ids the model names in its tool calls: one of the inbox, one of no email.
TargetIds == {<<"3">>, <<"7">>}

\* The body the model drafts for a reply.
DraftBodies == {<<"d">>}

NoArgs == [key \in {} |-> <<>>]

ReadOnlyCalls ==
    {[name |-> "check_inbox", args |-> NoArgs]}
    \cup {[name |-> "read_email", args |-> [email_id |-> id]] : id \in TargetIds}

MutatingCalls ==
    {[name |-> "reply_to_email", args |-> [email_id |-> id, body |-> b]] :
        id \in TargetIds, b \in DraftBodies}
    \cup {[name |-> "delete_email", args |-> [email_id |-> id]] : id \in TargetIds}

ToolCalls == ReadOnlyCalls \cup MutatingCalls

\* Lines the operator types at the decision prompt (before strip and lower).
ChoiceLines ==
    { <<"a">>, <<" ", "A", " ">>, <<"r">>, <<"e">>, <<>>,
      <<"r", "e", "j", "e", "c", "t">> }

\* Lines typed as the reason of a rejection.
ReasonLines == { <<>>, <<" ", "n">> }

\* Lines typed as the new value of email_id.
IdLines == { <<>>, <<" ", "2">>, <<"7">> }

\* Lines typed as the new value of body.
BodyLines == { <<>>, <<" ">>, <<"b", " ">> }

(* ---------------------- agent and its middleware ------------------------ *)

\* interrupt_on with "reply_to_email": False.
interrupt_on_ReplyUngated(name) ==
    CASE name = "check_inbox" -> FALSE
      [] name = "read_email" -> FALSE
      [] name = "reply_to_email" -> FALSE
      [] name = "delete_email" -> TRUE

\* HumanInTheLoopMiddleware(interrupt_on = {...})
interrupt_on(name) ==
    CASE name = "check_inbox" -> FALSE
      [] name = "read_email" -> FALSE
      [] name = "reply_to_email" -> TRUE
      [] name = "delete_email" -> TRUE

Mutating(call) == call.name \in {"reply_to_email", "delete_email"}

\* The tool node: one call run on the state the step started from.
RunTool(call, inbox, processed_ids) ==
    CASE call.name = "check_inbox" ->
            ToolOut([kind |-> "listing", lines |-> check_inbox(inbox, processed_ids)],
                    FALSE, <<>>)
      [] call.name = "read_email" ->
            read_email(call.args.email_id, inbox)
      [] call.name = "reply_to_email" ->
            reply_to_email(call.args.email_id, call.args.body, inbox, processed_ids)
      [] call.name = "delete_email" ->
            delete_email(call.args.email_id, inbox, processed_ids)

\* processed_ids has no reducer in InboxState: the last update written wins.
RECURSIVE LastUpdate(_, _)
LastUpdate(outs, processed_ids) ==
    IF outs = <<>> THEN processed_ids
    ELSE IF outs[Len(outs)].has_update THEN outs[Len(outs)].processed_ids
    ELSE LastUpdate(SubSeq(outs, 1, Len(outs) - 1), processed_ids)

\* inbox_prompt: the emails of the inbox whose id is not in processed_ids.
Remaining(inbox, processed_ids) ==
    Cardinality({k \in 1..Len(inbox) : ~InList(inbox[k].id, processed_ids)})

(* --------------------------- the decision prompt ------------------------ *)

\* An edit that leaves email_id alone.
EditedArgs_KeepId(tool_args, lines) ==
    [key \in DOMAIN tool_args |->
        LET new_val == Strip(lines[key])
        IN IF new_val # <<>> /\ key # "email_id" THEN new_val ELSE tool_args[key]]

\* An edit that takes the typed line without strip().
EditedArgs_NoStrip(tool_args, lines) ==
    [key \in DOMAIN tool_args |->
        LET new_val == lines[key]
        IN IF new_val # <<>> THEN new_val ELSE tool_args[key]]

\* edited_args = dict(tool_args), then each key replaced by the stripped line
\* typed for it unless that is empty.
EditedArgs(tool_args, lines) ==
    [key \in DOMAIN tool_args |->
        LET new_val == Strip(lines[key])
        IN IF new_val # <<>> THEN new_val ELSE tool_args[key]]

\* The else branch rejecting instead of approving.
MakeDecision_ElseReject(choice, tool_name, tool_args, reason_line, lines) ==
    IF choice = <<"a">> THEN [type |-> "approve"]
    ELSE IF choice = <<"r">> THEN [type |-> "reject", message |-> Strip(reason_line)]
    ELSE IF choice = <<"e">>
    THEN [type |-> "edit",
          edited_action |-> [name |-> tool_name, args |-> EditedArgs(tool_args, lines)]]
    ELSE [type |-> "reject", message |-> <<>>]

\* The "r" branch building an approve decision.
MakeDecision_RejectApproves(choice, tool_name, tool_args, reason_line, lines) ==
    IF choice = <<"a">> THEN [type |-> "approve"]
    ELSE IF choice = <<"r">> THEN [type |-> "approve"]
    ELSE IF choice = <<"e">>
    THEN [type |-> "edit",
          edited_action |-> [name |-> tool_name, args |-> EditedArgs(tool_args, lines)]]
    ELSE [type |-> "approve"]

\* The if / elif / else on choice.
MakeDecision(choice, tool_name, tool_args, reason_line, lines) ==
    IF choice = <<"a">> THEN [type |-> "approve"]
    ELSE IF choice = <<"r">> THEN [type |-> "reject", message |-> Strip(reason_line)]
    ELSE IF choice = <<"e">>
    THEN [type |-> "edit",
          edited_action |-> [name |-> tool_name, args |-> EditedArgs(tool_args, lines)]]
    ELSE [type |-> "approve"]

(* -------------------------------- state --------------------------------- *)

VARIABLES
    pc,               \* position of the demo block
    inbox,            \* state["inbox"] of the thread
    processed_ids,    \* state["processed_ids"] of the thread
    remaining,        \* the count inbox_prompt put in the model's system prompt
    tool_calls,       \* tool calls of the model's last message, held while interrupted
    tool_messages,    \* answers of the tools run for the model's last message
    action_requests,  \* interrupt.value["action_requests"]
    idx,              \* the for loop's position in action_requests (from 1)
    choice,           \* the loop's local `choice`
    decision,         \* the loop's local `decision`
    resume,           \* the decisions handed to Command(resume = ...)
    typed,            \* history: the lines typed at the latest decision prompt
    given             \* history: the decisions made in this round, one per prompt

vars == <<pc, inbox, processed_ids, remaining, tool_calls, tool_messages, action_requests,
          idx, choice, decision, resume, typed, given>>

\* A proposal that checked the id first would not interrupt on an unknown one.
Gated_Validating(call) ==
    interrupt_on(call.name) /\ call.args.email_id \in InboxIds(inbox)

\* The middleware interrupts on a tool call by the tool's name alone.
Gated(call) == interrupt_on(call.name)

\* Position of tool call k among the calls of the batch that are interrupted on.
Rank(calls, k) == Cardinality({j \in 1..k : Gated(calls[j])})

\* What the middleware does to one tool call given the decisions of a resume.
Resolve(calls, k, decisions) ==
    IF ~Gated(calls[k]) THEN [run |-> TRUE, call |-> calls[k]]
    ELSE LET d == decisions[Rank(calls, k)]
         IN CASE d.type = "approve" -> [run |-> TRUE, call |-> calls[k]]
              [] d.type = "edit" ->
                    [run |-> TRUE,
                     call |-> [name |-> d.edited_action.name,
                               args |-> d.edited_action.args]]
              [] d.type = "reject" ->
                    [run |-> FALSE, call |-> calls[k], message |-> d.message]

ResolvedOut(r, state_inbox, state_processed_ids) ==
    IF r.run THEN RunTool(r.call, state_inbox, state_processed_ids)
    ELSE ToolOut([kind |-> "rejected", name |-> r.call.name, message |-> r.message],
                 FALSE, <<>>)

\* A local that is not bound (before its first assignment, or dead).
Unbound == <<"<unbound>">>

NoLines == [key \in {} |-> <<>>]

Init ==
    /\ pc = "Start"
    /\ inbox = <<>>
    /\ processed_ids = <<>>
    /\ remaining = 0
    /\ tool_calls = <<>>
    /\ tool_messages = <<>>
    /\ action_requests = <<>>
    /\ idx = 0
    /\ choice = Unbound
    /\ decision = Unbound
    /\ resume = <<>>
    /\ typed = NoLines
    /\ given = <<>>

ClearRound ==
    /\ choice' = Unbound
    /\ decision' = Unbound
    /\ resume' = <<>>
    /\ typed' = NoLines
    /\ given' = <<>>

\* agent.invoke({"messages": ..., "inbox": SAMPLE_INBOX, "processed_ids": []})
Invoke ==
    /\ pc = "Start"
    /\ pc' = "BeforeModel"
    /\ inbox' = SAMPLE_INBOX
    /\ processed_ids' = <<>>
    /\ UNCHANGED <<remaining, tool_calls, tool_messages, action_requests,
                   idx, choice, decision, resume, typed, given>>

\* The dynamic prompt middleware runs before each call of the model, on the
\* state the tools left.  The loop's locals and the history of the round are
\* dead from here on: every one of them is assigned before it is next read.
InboxPrompt ==
    /\ pc = "BeforeModel"
    /\ pc' = "AwaitingModel"
    /\ remaining' = Remaining(inbox, processed_ids)
    /\ tool_calls' = <<>>
    /\ action_requests' = <<>>
    /\ idx' = 0
    /\ ClearRound
    /\ UNCHANGED <<inbox, processed_ids, tool_messages>>

Batches == SeqsUpTo(ToolCalls, MaxBatch)

BatchAllowed(calls) ==
    (\E k \in 1..Len(calls) : Mutating(calls[k])) => Len(processed_ids) < MaxProcessed

\* The model answers without a tool call: the run ends.
ModelFinish ==
    /\ pc = "AwaitingModel"
    /\ pc' = "Done"
    /\ tool_messages' = <<>>
    /\ UNCHANGED <<inbox, processed_ids, remaining, tool_calls, action_requests,
                   idx, choice, decision, resume, typed, given>>

\* The model calls tools none of which is interrupted on: they run at once.
ModelCallTools ==
    /\ pc = "AwaitingModel"
    /\ \E calls \in Batches :
        /\ BatchAllowed(calls)
        /\ SelectSeq(calls, Gated) = <<>>
        /\ LET outs == [k \in 1..Len(calls) |-> RunTool(calls[k], inbox, processed_ids)]
           IN /\ tool_messages' = [k \in 1..Len(calls) |-> outs[k].answer]
              /\ processed_ids' = LastUpdate(outs, processed_ids)
              /\ tool_calls' = calls
    /\ pc' = "BeforeModel"
    /\ UNCHANGED <<inbox, remaining, action_requests,
                   idx, choice, decision, resume, typed, given>>

\* The model calls tools some of which are interrupted on: nothing runs, the
\* invoke returns with __interrupt__ and the loop starts on its requests.
ModelPropose ==
    /\ pc = "AwaitingModel"
    /\ \E calls \in Batches :
        /\ BatchAllowed(calls)
        /\ SelectSeq(calls, Gated) # <<>>
        /\ tool_calls' = calls
        /\ action_requests' = SelectSeq(calls, Gated)
    /\ pc' = "Prompt"
    /\ tool_messages' = <<>>
    /\ idx' = 1
    /\ UNCHANGED <<inbox, processed_ids, remaining, choice, decision, resume,
                   typed, given>>

\* The lines a prompt can get: none is typed when the prompt is not reached.
Asked(reached, lines) == IF reached THEN lines ELSE {<<>>}

\* One pass of the for loop: the proposed action is shown, the operator types
\* a choice (and a reason, or new values), and `decision` is assigned.
Prompt ==
    /\ pc = "Prompt"
    /\ LET action == action_requests[idx]
           tool_name == action.name
           tool_args == action.args
       IN \E line \in ChoiceLines :
          \E reason_line \in Asked(Lower(Strip(line)) = <<"r">>, ReasonLines),
             id_line \in Asked(Lower(Strip(line)) = <<"e">>, IdLines),
             body_line \in Asked(Lower(Strip(line)) = <<"e">>
                                    /\ "body" \in DOMAIN tool_args, BodyLines) :
            LET c == Lower(Strip(line))
                lines == [key \in DOMAIN tool_args |->
                             IF key = "email_id" THEN id_line ELSE body_line]
            IN /\ choice' = c
               /\ decision' = MakeDecision(c, tool_name, tool_args, reason_line, lines)
               /\ typed' = [choice |-> line,
                            reason |-> IF c = <<"r">> THEN reason_line ELSE <<>>,
                            args |-> IF c = <<"e">> THEN lines ELSE NoLines]
    /\ given' = Append(given, decision')
    /\ idx' = idx + 1
    /\ pc' = IF idx = Len(action_requests) THEN "Resume" ELSE "Prompt"
    /\ UNCHANGED <<inbox, processed_ids, remaining, tool_calls, tool_messages,
                   action_requests, resume>>

\* agent.invoke(Command(resume = {"decisions": [decision]})): the middleware
\* refuses a number of decisions other than that of the requests; otherwise
\* each call is run as decided.
ResumeAgent ==
    /\ pc = "Resume"
    /\ resume' = <<decision>>
    /\ IF Len(resume') # Len(action_requests)
       THEN /\ pc' = "Crashed"
            /\ UNCHANGED <<processed_ids, tool_messages>>
       ELSE LET rs == [k \in 1..Len(tool_calls) |-> Resolve(tool_calls, k, resume')]
                outs == [k \in 1..Len(tool_calls) |->
                            ResolvedOut(rs[k], inbox, processed_ids)]
            IN /\ pc' = "BeforeModel"
               /\ tool_messages' = [k \in 1..Len(tool_calls) |-> outs[k].answer]
               /\ processed_ids' = LastUpdate(outs, processed_ids)
    /\ UNCHANGED <<inbox, remaining, tool_calls, action_requests, idx, choice,
                   decision, typed, given>>

Next ==
    \/ Invoke
    \/ InboxPrompt
    \/ ModelFinish
    \/ ModelCallTools
    \/ ModelPropose
    \/ Prompt
    \/ ResumeAgent

Spec == Init /\ [][Next]_vars

(* ------------------------- shared vocabulary of the claims -------------- *)

\* The agent was resumed and ran the tool calls of the interrupted message.
Resumed == pc = "BeforeModel" /\ resume # <<>>

\* The one request of the round was decided and the agent resumed with it.
ResumedOne == Resumed /\ Len(action_requests) = 1

\* Positions of the mutating calls in the held tool calls.
MutatingIdx == {k \in 1..Len(tool_calls) : Mutating(tool_calls[k])}

Recognized == {<<"a">>, <<"r">>, <<"e">>}

StoreUnchanged == inbox' = inbox /\ processed_ids' = processed_ids

(* --------------------------------- C1 ----------------------------------- *)

\* C1: after a delete(i) request for an email of the inbox is approved and
\* run, check_inbox no longer lists i, and i is in processed_ids.
C1_ApprovedDeleteRemovesRecord ==
    \A k \in MutatingIdx :
        ( /\ ResumedOne
          /\ resume = <<[type |-> "approve"]>>
          /\ tool_calls[k].name = "delete_email"
          /\ tool_messages[k].kind = "deleted" )
        => LET i == tool_calls[k].args.email_id
               listing == check_inbox(inbox, processed_ids)
           IN /\ \A j \in 1..Len(listing) : listing[j].id # i
              /\ InList(i, processed_ids)

(* --------------------------------- C2 ----------------------------------- *)

\* C2: marking is idempotent: no id occurs more than once in processed_ids.
C2_ProcessedIdsNoDuplicates ==
    \A k \in 1..Len(processed_ids) : Count(processed_ids[k], processed_ids) <= 1

(* --------------------------------- C3 ----------------------------------- *)

\* The one request of the round was resolved by an edit and its call was run.
EditedOne == ResumedOne /\ resume[1].type = "edit"

\* The kinds of answer a tool gives when it is run.
AnswerKinds(name) ==
    IF name = "reply_to_email" THEN {"reply_sent", "not_found"}
    ELSE {"deleted", "not_found"}

\* What an edit makes of one argument: the stripped line, or the original
\* value when nothing but whitespace was typed.
EditedValue(line, original) == IF Strip(line) # <<>> THEN Strip(line) ELSE original

\* C3 as stated: the action applied after an edit has the email_id of the
\* request.
C3_EditKeepsTargetId ==
    \A k \in MutatingIdx :
        EditedOne => tool_messages[k].email_id = tool_calls[k].args.email_id

\* C3 as amended: the action applied after an edit is the requested tool, run
\* on the email_id the operator typed (stripped), or on the request's email_id
\* when the line typed for it was blank.
C3_EditAppliesTypedTargetId ==
    \A k \in MutatingIdx :
        EditedOne =>
            /\ tool_messages[k].kind \in AnswerKinds(tool_calls[k].name)
            /\ tool_messages[k].email_id
                  = EditedValue(typed.args.email_id, tool_calls[k].args.email_id)

\* An edit moved a reply from email 3 to email 2, and the reply was sent.
C3_EditRetargeted ==
    /\ EditedOne
    /\ \E k \in MutatingIdx :
          /\ tool_calls[k].args.email_id = <<"3">>
          /\ tool_messages[k].kind = "reply_sent"
          /\ tool_messages[k].email_id = <<"2">>
          /\ processed_ids = <<(<<"2">>)>>

(* --------------------------------- C4 ----------------------------------- *)

\* C4 as stated: an approve decision is made only when the operator chose
\* approve; any other unrecognized line makes none.
C4_ApproveOnlyWhenChosen ==
    (choice # Unbound /\ decision.type = "approve") => choice = <<"a">>

\* C4 as amended: a line that is none of a, r, e after strip and lower is not
\* asked again: the loop makes an approve decision for the request and moves
\* on, and the resumed agent runs the call as proposed.
C4_UnrecognizedChoiceApproves ==
    (choice # Unbound /\ choice \notin Recognized) =>
        /\ decision = [type |-> "approve"]
        /\ idx = Len(given) + 1
        /\ given[Len(given)] = decision
        /\ ResumedOne =>
              \A k \in MutatingIdx :
                  tool_messages[k] = RunTool(tool_calls[k], inbox, <<>>).answer

\* The operator typed the word reject, and the delete was carried out.
C4_RejectWordApproved ==
    /\ ResumedOne
    /\ typed.choice = <<"r", "e", "j", "e", "c", "t">>
    /\ \E k \in MutatingIdx : tool_messages[k].kind = "deleted"
    /\ processed_ids # <<>>

(* --------------------------------- C5 ----------------------------------- *)

\* C5: the agent is resumed with one decision per request, the k-th being the
\* one the operator gave for the k-th request.
C5_ResumeCarriesEveryDecision ==
    resume # <<>> => (Len(resume) = Len(action_requests) /\ resume = given)

(* --------------------------------- C6 ----------------------------------- *)

\* The steps from a proposal to the resume of its rejected reply.
ProposeStep == pc = "AwaitingModel" /\ pc' = "Prompt"

RejectedReplyStep ==
    /\ pc = "Resume"
    /\ Len(action_requests) = 1
    /\ action_requests[1].name = "reply_to_email"
    /\ choice = <<"r">>

\* C6: proposing a reply, asking for its decision and resuming with its
\* rejection, whatever the reason, leave inbox and processed_ids as they were.
C6_RejectedReplyChangesNothing ==
    [][ /\ (ProposeStep \/ pc = "Prompt") => StoreUnchanged
        /\ RejectedReplyStep =>
              /\ StoreUnchanged
              /\ pc' = "BeforeModel"
              /\ resume' = <<[type |-> "reject", message |-> Strip(typed.reason)]>>
      ]_vars

\* A reply was rejected with a reason and the agent went on.
C6_ReplyRejected ==
    /\ ResumedOne
    /\ action_requests[1].name = "reply_to_email"
    /\ resume = <<[type |-> "reject", message |-> <<"n">>]>>
    /\ \E k \in MutatingIdx : tool_messages[k].kind = "rejected"
    /\ processed_ids = <<>>

(* --------------------------------- C7 ----------------------------------- *)

\* The email_id a decision has the request's tool run on.
DecidedId(request, d) ==
    IF d.type = "edit" THEN d.edited_action.args.email_id ELSE request.args.email_id

\* C7: after the first invoke, inbox never changes and processed_ids changes
\* only when the agent is resumed with an approve or edit decision for the
\* request, by the id that decision has the tool run on; nothing changes from
\* the proposal to the resume, so a session left there has the state of
\* before the proposal; and the agent is interrupted on mutating calls only,
\* a message of read-only calls being run at once.
C7_MutationsOnlyAfterApproveOrEdit ==
    [][ /\ (pc # "Start" /\ ~StoreUnchanged) =>
              /\ pc = "Resume"
              /\ Len(action_requests) = 1
              /\ decision.type \in {"approve", "edit"}
              /\ resume' = <<decision>>
              /\ inbox' = inbox
              /\ processed_ids'
                    = Append(processed_ids, DecidedId(action_requests[1], decision))
        /\ pc' \in {"Prompt", "Resume"} => StoreUnchanged
        /\ ProposeStep =>
              /\ action_requests' # <<>>
              /\ \A k \in 1..Len(action_requests') : Mutating(action_requests'[k])
        /\ (pc = "AwaitingModel" /\ pc' = "BeforeModel") =>
              /\ Len(tool_messages') = Len(tool_calls')
              /\ \A k \in 1..Len(tool_calls') : ~Mutating(tool_calls'[k])
      ]_vars

\* A proposed reply was held until the operator typed a, and only then ran
\* and marked its email processed.
C7_CommittedAfterApproval ==
    /\ ResumedOne
    /\ typed.choice = <<"a">>
    /\ resume = <<[type |-> "approve"]>>
    /\ action_requests[1].name = "reply_to_email"
    /\ \E k \in MutatingIdx : tool_messages[k].kind = "reply_sent"
    /\ processed_ids = <<(<<"3">>)>>
    /\ inbox = SAMPLE_INBOX

(* --------------------------------- C8 ----------------------------------- *)

\* The call run for tool call k when the agent is resumed with decision d.
RunCall(call, d) ==
    IF Mutating(call) /\ d.type = "edit"
    THEN [name |-> d.edited_action.name, args |-> d.edited_action.args]
    ELSE call

UnknownId(call) ==
    "email_id" \in DOMAIN call.args /\ call.args.email_id \notin InboxIds(inbox)

\* C8: a read, reply or delete run on an id of no email answers not found,
\* changes neither inbox nor processed_ids, and leaves the agent running,
\* about to call the model again.
C8_UnknownIdIsNotFound ==
    [][ /\ (pc = "AwaitingModel" /\ pc' = "BeforeModel") =>
              \A k \in 1..Len(tool_calls') :
                  UnknownId(tool_calls'[k]) =>
                      /\ tool_messages'[k] = NotFoundAnswer(tool_calls'[k].args.email_id)
                      /\ StoreUnchanged
        /\ (pc = "Resume" /\ Len(action_requests) = 1 /\ decision.type # "reject") =>
              \A k \in 1..Len(tool_calls) :
                  UnknownId(RunCall(tool_calls[k], decision)) =>
                      /\ pc' = "BeforeModel"
                      /\ tool_messages'[k]
                            = NotFoundAnswer(RunCall(tool_calls[k], decision).args.email_id)
                      /\ Mutating(tool_calls[k]) => StoreUnchanged
      ]_vars

\* An approved reply to an id of no email answered not found.
C8_ReplyNotFound ==
    /\ ResumedOne
    /\ resume = <<[type |-> "approve"]>>
    /\ \E k \in MutatingIdx :
          /\ tool_calls[k].name = "reply_to_email"
          /\ tool_messages[k] = NotFoundAnswer(<<"7">>)
    /\ processed_ids = <<>>

(* --------------------------------- C9 ----------------------------------- *)

\* The reply of the round was resolved by an edit, and sent.
EditedReplySent(k) ==
    /\ EditedOne
    /\ tool_calls[k].name = "reply_to_email"
    /\ tool_messages[k].kind = "reply_sent"

\* C9 as stated: the body sent after an edit is the line the operator typed
\* for body, or the proposed body when that line is empty.
C9_SentBodyIsTypedLine ==
    \A k \in MutatingIdx :
        EditedReplySent(k) =>
            tool_messages[k].body
                = IF typed.args.body # <<>> THEN typed.args.body
                  ELSE tool_calls[k].args.body

\* C9 as amended: the body sent after an edit is the line typed for body with
\* its leading and trailing whitespace stripped, or the proposed body when
\* that line is empty or only whitespace; the edit is the only decision of
\* the resume, and the reply runs on it.
C9_SentBodyIsStrippedLine ==
    \A k \in MutatingIdx :
        /\ (EditedOne /\ tool_calls[k].name = "reply_to_email") =>
              /\ resume = given
              /\ tool_messages[k].kind \in {"reply_sent", "not_found"}
        /\ EditedReplySent(k) =>
              tool_messages[k].body = EditedValue(typed.args.body, tool_calls[k].args.body)

\* An edited reply was sent with the body typed, less its trailing blank.
C9_EditedBodySent ==
    \E k \in MutatingIdx :
        /\ EditedReplySent(k)
        /\ typed.args.body = <<"b", " ">>
        /\ tool_messages[k].body = <<"b">>
        /\ tool_calls[k].args.body = <<"d">>

(* --------------------------------- C10 ---------------------------------- *)

\* C10 as stated: no request for an id of no email is shown to the operator.
C10_NoRequestForUnknownId ==
    pc \in {"Prompt", "Resume"} =>
        \A k \in 1..Len(action_requests) :
            action_requests[k].args.email_id \in InboxIds(inbox)

\* C10 as amended: a proposal does not look the id up: every reply or delete
\* the model calls becomes a request shown to the operator, whatever its id,
\* none is answered (not found or otherwise) before its decision, no reply or
\* delete is run without a proposal, and proposing changes neither inbox nor
\* processed_ids.
C10_ProposalDoesNotValidate ==
    [][ /\ ProposeStep =>
              /\ action_requests' = SelectSeq(tool_calls', Mutating)
              /\ tool_messages' = <<>>
              /\ StoreUnchanged
        /\ (pc = "AwaitingModel" /\ pc' = "BeforeModel") =>
              \A k \in 1..Len(tool_calls') : ~Mutating(tool_calls'[k])
      ]_vars

\* A delete of an id of no email is shown to the operator.
C10_UnknownIdPresented ==
    /\ pc = "Prompt"
    /\ idx = 1
    /\ action_requests = <<[name |-> "delete_email", args |-> [email_id |-> <<"7">>]]>>
    /\ tool_messages = <<>>
    /\ processed_ids = <<>>

(* --------------------------------- C11 ---------------------------------- *)

\* Positions of processed_ids written by the step: appended, or changed.
MarkedByStep ==
    {k \in 1..Len(processed_ids') :
        k > Len(processed_ids) \/ processed_ids'[k] # processed_ids[k]}

\* C11: every id a step puts in processed_ids is the id of an email that is
\* in inbox when the step is taken, whatever was proposed, decided or typed
\* in an edit; so processed_ids never holds an id that was never the id of an
\* email of the inbox.
C11_ProcessedIdsWereInInbox ==
    /\ [][\A k \in MarkedByStep : processed_ids'[k] \in InboxIds(inbox)]_vars
    /\ [](\A k \in 1..Len(processed_ids) :
              processed_ids[k] \in InboxIds(SAMPLE_INBOX))

\* With email 3 processed, a delete of email 3 was edited onto id 7, of no
\* email: it answered not found and 7 was not marked.
C11_EditToUnknownIdNotMarked ==
    /\ EditedOne
    /\ typed.args.email_id = <<"7">>
    /\ \E k \in MutatingIdx :
          /\ tool_calls[k] = [name |-> "delete_email", args |-> [email_id |-> <<"3">>]]
          /\ tool_messages[k] = NotFoundAnswer(<<"7">>)
    /\ processed_ids = <<(<<"3">>)>>

============================================================================
